---- MODULE Spec2Model ----
(***************************************************************************)
(* Model of the photobooth capture screen (CameraPage, multi-photo         *)
(* version): the React component's state, the getUserMedia promise, the    *)
(* async capture loop with its setInterval countdown, and the handlers     *)
(* behind the buttons and selectors.                                       *)
(*                                                                         *)
(* One TLA+ action is one browser task: an event handler, a promise        *)
(* reaction or a timer callback, together with the microtasks it queues    *)
(* (the continuation of an await runs in the task that resolved it).       *)
(* State setters of an unmounted component are no-ops, and refs of an      *)
(* unmounted element are null.                                             *)
(*                                                                         *)
(* The model follows one visit of the page, from its mount to its unmount  *)
(* and on through whatever the visit left running (its intervals, its      *)
(* getUserMedia promise, its stream).  getContext('2d') returns the same   *)
(* object, or null, on every call for one canvas, so contextOk is fixed    *)
(* per visit.  A video element has frames to draw exactly when the stream  *)
(* is attached to it (srcObject).                                          *)
(***************************************************************************)
EXTENDS Integers, Sequences, FiniteSets, TLC

VARIABLES
    mounted,            \* the CameraPage component is mounted
    acq,                \* getUserMedia promise: "pending" | "resolved" | "rejected"
    tracks,             \* the MediaStream's tracks: "none" | "live" | "stopped"
    alerted,            \* the 'Unable to access webcam' alert was shown
    stream,             \* useState stream: NullStream or MediaStream
    srcObject,          \* the mounted <video> element has the stream attached
    contextOk,          \* canvas.getContext('2d') yields a context in this browser
    filter,             \* useState filter
    timer,              \* useState timer
    photoCount,         \* useState photoCount
    countdown,          \* useState countdown (Null or a number)
    capturedImages,     \* useState capturedImages
    currentPhotoIndex,  \* useState currentPhotoIndex
    isCapturing,        \* useState isCapturing
    runs,               \* suspended captureMultiplePhotos calls, one per live interval
    lastRun,            \* history: the run that ended in the last step, if any
    downloads           \* history: link.click() calls of the last downloadPhoto

vars == <<mounted, acq, tracks, alerted, stream, srcObject, contextOk, filter,
          timer, photoCount, countdown, capturedImages, currentPhotoIndex,
          isCapturing, runs, lastRun, downloads>>

----------------------------------------------------------------------------
(* Values *)

\* null of the countdown state (number | null), kept apart from every number.
Null == -2
NullStream == "null"
MediaStream == "MediaStream"

\* takePicture() returning nothing: no image has shot number 0.
Undefined == [shot |-> 0, filter |-> "undefined", blank |-> TRUE]

\* Select values are strings; they are modelled as tuples of characters so
\* that parseInt has something to parse.
OFF == <<"o", "f", "f">>

FilterType ==
    {"none", "grayscale(100%)", "sepia(100%)", "invert(100%)", "blur(3px)",
     "contrast(200%)"}

TimerType == {OFF, <<"3">>, <<"5">>, <<"1", "0">>}

PhotoCountType == {<<"1">>, <<"2">>, <<"3">>, <<"4">>}

\* The number of concurrently suspended capture loops the model can hold.
MaxRuns == 2

\* NaN of parseInt, kept apart from every parsed number.
NaN == -1

Digits == {"0", "1", "2", "3", "4", "5", "6", "7", "8", "9"}

DigitVal(c) ==
    CASE c = "0" -> 0 [] c = "1" -> 1 [] c = "2" -> 2 [] c = "3" -> 3
      [] c = "4" -> 4 [] c = "5" -> 5 [] c = "6" -> 6 [] c = "7" -> 7
      [] c = "8" -> 8 [] c = "9" -> 9

RECURSIVE ParseDigits(_, _, _)
ParseDigits(s, k, acc) ==
    IF k > Len(s) \/ s[k] \notin Digits
    THEN acc
    ELSE ParseDigits(s, k + 1, acc * 10 + DigitVal(s[k]))

\* parseInt(string): the leading decimal digits, NaN when there are none.
ParseInt(s) ==
    IF Len(s) = 0 \/ s[1] \notin Digits THEN NaN ELSE ParseDigits(s, 1, 0)

----------------------------------------------------------------------------
(* React state as seen and written by one task *)

\* The component state a capture loop writes, as one record.
Cur ==
    [countdown |-> countdown, currentPhotoIndex |-> currentPhotoIndex,
     capturedImages |-> capturedImages, isCapturing |-> isCapturing]

\* A state setter: a no-op once the component is unmounted.
SetState(S, field, v) == IF mounted THEN [S EXCEPT ![field] = v] ELSE S

\* videoRef.current / canvasRef.current: the <video> is rendered only while
\* capturedImages is empty, the <canvas> always; both are null after unmount.
VideoMounted == mounted /\ capturedImages = <<>>
CanvasMounted == mounted

\* History entries of a run: the setCountdown(number) and takePicture() calls.
CdEvent(n) == [ev |-> "cd", v |-> n, res |-> "-"]
ShotEvent(k, res) == [ev |-> "shot", v |-> k, res |-> res]

----------------------------------------------------------------------------
(* takePicture and captureMultiplePhotos *)

\* Faulty variant: the filter is read from the live state at capture time.
PictureFilterLive(F, cur) == cur

\* context.filter = filter: the filter of the render whose handler started
\* the run (F.filter); cur is the filter state at the time of the call.
PictureFilter(F, cur) == F.filter

\* takePicture(): Undefined when a ref or the 2D context is missing, else the
\* data URL of the canvas.  With no stream attached videoWidth is 0 and
\* toDataURL() of the empty canvas is the (truthy) string "data:,".
TakePicture(F) ==
    IF ~VideoMounted \/ ~CanvasMounted THEN Undefined
    ELSE IF ~contextOk THEN Undefined
    ELSE [shot |-> F.i + 1, filter |-> PictureFilter(F, filter),
          blank |-> ~srcObject]

\* Faulty variant: the loop stops one photo early.
LoopContinuesOffByOne(i, count) == i < count - 1

\* Faulty variant: the very tick that reaches 0 does not end the countdown.
CountdownDoneBelowZero(remaining) == remaining < 0

\* Faulty variant: the loop takes one photo too many.
LoopContinuesOneMore(i, count) == i <= count

\* for (let i = 0; i < count; i++)
LoopContinues(i, count) == i < count

\* Faulty variant: the countdown branch is taken whatever the timer.
UsesTimerAlways(t) == TRUE

\* if (timer !== 'off')
UsesTimer(t) == t # OFF

\* Faulty variant: the countdown ends at 1, the 0 is never set.
CountdownDoneAtOne(remaining) == remaining <= 1

\* if (remaining <= 0)
CountdownDone(remaining) == remaining <= 0

\* Faulty variant: images of an empty canvas are dropped one by one.
PushedUnlessBlank(images, image) ==
    IF image.shot # 0 /\ ~image.blank THEN Append(images, image) ELSE images

\* if (image) images.push(image)
Pushed(images, image) ==
    IF image # Undefined THEN Append(images, image) ELSE images

ShotResult(image) ==
    IF image = Undefined THEN "none"
    ELSE IF image.blank THEN "blank" ELSE "image"

\* Faulty variant: the photo index shown is the 0-based loop index.
PhotoIndexZeroBased(i) == i

\* setCurrentPhotoIndex(i + 1)
PhotoIndex(i) == i + 1

\* The loop of captureMultiplePhotos from the loop test on, up to the next
\* await (suspended) or to the end of the function.
RECURSIVE Iterate(_, _)
RECURSIVE Capture(_, _)
Iterate(F, S) ==
    IF LoopContinues(F.i, F.count)
    THEN LET S1 == SetState(S, "currentPhotoIndex", PhotoIndex(F.i))
         IN IF UsesTimer(F.timer)
            THEN LET seconds == ParseInt(F.timer)
                 IN [frame |-> [F EXCEPT !.remaining = seconds,
                                         !.log = Append(@, CdEvent(seconds))],
                     st |-> SetState(S1, "countdown", seconds),
                     suspended |-> TRUE]
            ELSE Capture(F, S1)
    ELSE [frame |-> F,
          st |-> SetState(SetState(SetState(SetState(S,
                     "capturedImages", F.images),
                     "isCapturing", FALSE),
                     "currentPhotoIndex", 0),
                     "countdown", Null),
          suspended |-> FALSE]

\* Faulty variant: every photo is put on show as soon as it is taken.
CaptureShowsEachShot(F, S) ==
    LET image == TakePicture(F)
        F1 == [F EXCEPT !.images = Pushed(@, image),
                        !.log = Append(@, ShotEvent(F.i + 1, ShotResult(image))),
                        !.i = @ + 1]
    IN Iterate(F1, SetState(S, "capturedImages", F1.images))

\* const image = takePicture(); if (image) images.push(image); i++
Capture(F, S) ==
    LET image == TakePicture(F)
        F1 == [F EXCEPT !.images = Pushed(@, image),
                        !.log = Append(@, ShotEvent(F.i + 1, ShotResult(image))),
                        !.i = @ + 1]
    IN Iterate(F1, S)

\* The interval callback of one suspended run, with the continuation of the
\* await when it resolves.
TickResult(F) ==
    LET rem == F.remaining - 1
        F1 == [F EXCEPT !.remaining = rem, !.log = Append(@, CdEvent(rem))]
        S1 == SetState(Cur, "countdown", rem)
    IN IF CountdownDone(rem)
       THEN Capture(F1, SetState(S1, "countdown", Null))
       ELSE [frame |-> F1, st |-> S1, suspended |-> TRUE]

\* Commit the component state a task leaves behind.  A <video> element that
\* is unmounted (review grid shown) loses its srcObject with it.
Commit(S) ==
    /\ countdown' = S.countdown
    /\ currentPhotoIndex' = S.currentPhotoIndex
    /\ capturedImages' = S.capturedImages
    /\ isCapturing' = S.isCapturing
    /\ srcObject' = (srcObject /\ S.capturedImages = <<>>)

\* Faulty variant: the interval is not cleared when its countdown ends.
RemoveAtKeeps(s, r) == s

\* clearInterval(interval); resolve(): the interval of run r is gone (and the
\* run with it, once its loop has ended).
RemoveAt(s, r) == [k \in 1..(Len(s) - 1) |-> IF k < r THEN s[k] ELSE s[k + 1]]

----------------------------------------------------------------------------
(* Initial state: the first render, getUserMedia requested *)

\* A call of captureMultiplePhotos: its closure (count, timer, filter), its
\* locals (i, images, remaining) and the history of its calls.
NewRun(count) ==
    [i |-> 0, count |-> count, timer |-> timer, filter |-> filter,
     remaining |-> 0, images |-> <<>>, log |-> <<>>]

NoRun ==
    [i |-> 0, count |-> 0, timer |-> OFF, filter |-> "none",
     remaining |-> 0, images |-> <<>>, log |-> <<>>]

Init ==
    /\ mounted = TRUE
    /\ acq = "pending"
    /\ tracks = "none"
    /\ alerted = FALSE
    /\ stream = NullStream
    /\ srcObject = FALSE
    /\ contextOk \in BOOLEAN
    /\ filter = "none"
    /\ timer = OFF
    /\ photoCount = <<"1">>
    /\ countdown = Null
    /\ capturedImages = <<>>
    /\ currentPhotoIndex = 0
    /\ isCapturing = FALSE
    /\ runs = <<>>
    /\ lastRun = NoRun
    /\ downloads = <<>>

envVars == <<acq, tracks, alerted, stream, contextOk>>
selVars == <<filter, timer, photoCount>>
seqVars == <<countdown, capturedImages, currentPhotoIndex, isCapturing>>

----------------------------------------------------------------------------
(* Frame source: the mount effect *)

\* .then(mediaStream => { setStream(mediaStream); if (videoRef.current) ... })
AcquireResolve ==
    /\ acq = "pending"
    /\ acq' = "resolved"
    /\ tracks' = "live"
    /\ stream' = IF mounted THEN MediaStream ELSE stream
    /\ srcObject' = IF VideoMounted THEN TRUE ELSE srcObject
    /\ UNCHANGED <<mounted, alerted, contextOk, selVars, seqVars, runs,
                   downloads>>
    /\ lastRun' = NoRun

\* .catch(err => { console.error(...); alert(...) })
AcquireReject ==
    /\ acq = "pending"
    /\ acq' = "rejected"
    /\ alerted' = TRUE
    /\ UNCHANGED <<mounted, tracks, stream, srcObject, contextOk, selVars, seqVars,
                   runs, downloads>>
    /\ lastRun' = NoRun

\* stream.getTracks().forEach(track => track.stop())
StopTracks(tr) == IF tr = "live" THEN "stopped" ELSE tr

\* The `stream` the cleanup closure sees: the effect has no dependencies, so
\* it is the value of the first render, useState(null).
EffectClosureStream == NullStream

\* return () => { if (stream) { ...stop() } }
Cleanup(tr) == IF EffectClosureStream # NullStream THEN StopTracks(tr) ELSE tr

\* The component instance goes away: its state is discarded and its refs are
\* nulled; timers and promises it started are not touched.
Discard ==
    /\ mounted' = FALSE
    /\ stream' = NullStream
    /\ srcObject' = FALSE
    /\ filter' = "none"
    /\ timer' = OFF
    /\ photoCount' = <<"1">>
    /\ countdown' = Null
    /\ capturedImages' = <<>>
    /\ currentPhotoIndex' = 0
    /\ isCapturing' = FALSE
    /\ downloads' = <<>>
    /\ UNCHANGED <<acq, alerted, contextOk, runs>>
    /\ lastRun' = NoRun

\* Faulty variant: getTracks() is called on whatever the stream state holds;
\* on null that throws ("error").
StopStreamUnguarded(s, tr) == IF s # NullStream THEN StopTracks(tr) ELSE "error"

\* if (stream) { stream.getTracks().forEach(track => track.stop()) }
StopStream(s, tr) == IF s # NullStream THEN StopTracks(tr) ELSE tr

\* goBack: stop the tracks of the stream in state, then navigate('/'), which
\* unmounts the page and runs the effect cleanup.
GoBack ==
    /\ mounted
    /\ tracks' = Cleanup(StopStream(stream, tracks))
    /\ Discard

\* The route changes without the Back button (browser history): only the
\* effect cleanup runs.
Unmount ==
    /\ mounted
    /\ tracks' = Cleanup(tracks)
    /\ Discard

----------------------------------------------------------------------------
(* Selectors (rendered only while capturedImages is empty) *)

\* <CustomSelect value={filter} onChange=...>: never disabled.
SetFilter(v) ==
    /\ mounted /\ capturedImages = <<>>
    /\ filter' = v
    /\ UNCHANGED <<mounted, envVars, srcObject, timer, photoCount, seqVars, runs, downloads>>
    /\ lastRun' = NoRun

\* <CustomSelect value={timer} disabled={isCapturing}>
SetTimer(v) ==
    /\ mounted /\ capturedImages = <<>> /\ ~isCapturing
    /\ timer' = v
    /\ UNCHANGED <<mounted, envVars, srcObject, filter, photoCount, seqVars, runs, downloads>>
    /\ lastRun' = NoRun

\* <CustomSelect value={photoCount} disabled={isCapturing}>
SetPhotoCount(v) ==
    /\ mounted /\ capturedImages = <<>> /\ ~isCapturing
    /\ photoCount' = v
    /\ UNCHANGED <<mounted, envVars, srcObject, filter, timer, seqVars, runs, downloads>>
    /\ lastRun' = NoRun

----------------------------------------------------------------------------
(* Capture *)

\* Faulty variant: the button is not disabled during a run.
CaptureButtonNeverDisabled == capturedImages = <<>>

\* The capture button: rendered while capturedImages is empty,
\* disabled={isCapturing}.
CaptureButtonEnabled == capturedImages = <<>> /\ ~isCapturing

\* capturePhoto: parseInt(photoCount), setIsCapturing(true),
\* captureMultiplePhotos(count) up to its first await or its end.
CapturePhoto ==
    /\ mounted /\ CaptureButtonEnabled
    /\ Len(runs) < MaxRuns
    /\ LET res == Iterate(NewRun(ParseInt(photoCount)),
                          SetState(Cur, "isCapturing", TRUE))
       IN /\ Commit(res.st)
          /\ runs' = IF res.suspended THEN Append(runs, res.frame) ELSE runs
          /\ lastRun' = IF res.suspended THEN NoRun ELSE res.frame
    /\ UNCHANGED <<mounted, envVars, selVars, downloads>>

\* Faulty variant: the interval is never scheduled, no tick arrives.
TickNeverFires(r) ==
    /\ FALSE
    /\ UNCHANGED vars

\* One firing of the interval of run r (it also fires after unmount: nothing
\* clears it but its own last tick).
Tick(r) ==
    /\ r \in 1..Len(runs)
    /\ LET res == TickResult(runs[r])
       IN /\ Commit(res.st)
          /\ runs' = IF res.suspended THEN [runs EXCEPT ![r] = res.frame]
                     ELSE RemoveAt(runs, r)
          /\ lastRun' = IF res.suspended THEN NoRun ELSE res.frame
    /\ UNCHANGED <<mounted, envVars, selVars, downloads>>

----------------------------------------------------------------------------
(* Review *)

\* Faulty variant: retake removes one image only.
RetakePhotoDropsFirst ==
    /\ mounted /\ capturedImages # <<>>
    /\ capturedImages' = Tail(capturedImages)
    /\ currentPhotoIndex' = 0
    /\ downloads' = <<>>
    /\ UNCHANGED <<mounted, envVars, srcObject, selVars, countdown, isCapturing,
                   runs>>
    /\ lastRun' = NoRun

\* retakePhoto (button rendered while capturedImages is non-empty); the
\* <video> element is rendered again, a new element without srcObject.
RetakePhoto ==
    /\ mounted /\ capturedImages # <<>>
    /\ capturedImages' = <<>>
    /\ currentPhotoIndex' = 0
    /\ downloads' = <<>>
    /\ UNCHANGED <<mounted, envVars, srcObject, selVars, countdown, isCapturing,
                   runs>>
    /\ lastRun' = NoRun

\* Faulty variant: the file names carry the 0-based index.
DownloadIndexZeroBased(index) == index

\* `vintage-photo-${Date.now()}-${index + 1}.png`
DownloadIndex(index) == index + 1

\* downloadPhoto: nothing with an empty batch; else, forEach (image, index),
\* one link.click() with href = image and the numbered file name.
DownloadPhoto ==
    /\ mounted /\ capturedImages # <<>>
    /\ downloads' = [k \in 1..Len(capturedImages) |->
                        [href |-> capturedImages[k],
                         index |-> DownloadIndex(k - 1)]]
    /\ UNCHANGED <<mounted, envVars, srcObject, selVars, seqVars, runs>>
    /\ lastRun' = NoRun

----------------------------------------------------------------------------

Next ==
    \/ AcquireResolve
    \/ AcquireReject
    \/ GoBack
    \/ Unmount
    \/ \E v \in FilterType : SetFilter(v)
    \/ \E v \in TimerType : SetTimer(v)
    \/ \E v \in PhotoCountType : SetPhotoCount(v)
    \/ CapturePhoto
    \/ \E r \in 1..MaxRuns : Tick(r)
    \/ RetakePhoto
    \/ DownloadPhoto

Spec == Init /\ [][Next]_vars

\* setInterval(..., 1000): a scheduled interval keeps firing every second
\* until it is cleared.
\* The same page with the ticks delivered.  A filter is an opaque string to
\* the sequencer, so two of them are selected here.
FairFilters == {"none", "sepia(100%)"}

FairNext ==
    \/ AcquireResolve
    \/ AcquireReject
    \/ GoBack
    \/ Unmount
    \/ \E v \in FairFilters : SetFilter(v)
    \/ \E v \in TimerType : SetTimer(v)
    \/ \E v \in PhotoCountType : SetPhotoCount(v)
    \/ CapturePhoto
    \/ \E r \in 1..MaxRuns : Tick(r)
    \/ RetakePhoto
    \/ DownloadPhoto

FairSpec ==
    Init /\ [][FairNext]_vars /\ WF_vars(\E r \in 1..MaxRuns : Tick(r))

----------------------------------------------------------------------------
(* Vocabulary of the properties *)

\* The runs a state shows: the suspended ones and the one that just ended.
Ended == lastRun # NoRun
Frames == {runs[r] : r \in 1..Len(runs)} \cup (IF Ended THEN {lastRun} ELSE {})

\* A step in which capturePhoto starts a run (it suspends, or it runs to its
\* end within the step).
RunStarts ==
    \/ Len(runs') > Len(runs)
    \/ lastRun' # NoRun /\ Len(runs') = Len(runs)

Strip(e) == [ev |-> e.ev, v |-> e.v]

IsPrefix(a, b) ==
    /\ Len(a) <= Len(b)
    /\ \A k \in 1..Len(a) : a[k] = b[k]

\* The history the specification asks of a run with a countdown of s seconds
\* and n photos: for each photo k, the values s, s-1, ..., 0, then shot k.
ExpectedPhoto(s, k) ==
    [j \in 1..(s + 2) |->
        IF j <= s + 1 THEN [ev |-> "cd", v |-> s + 1 - j]
        ELSE [ev |-> "shot", v |-> k]]

ExpectedRun(s, n) ==
    [j \in 1..(n * (s + 2)) |->
        ExpectedPhoto(s, ((j - 1) \div (s + 2)) + 1)[((j - 1) % (s + 2)) + 1]]

Seconds(t) ==
    CASE t = <<"3">> -> 3 [] t = <<"5">> -> 5 [] t = <<"1", "0">> -> 10
      [] OTHER -> 0

\* The number of photos the photo-count selector shows ('1'..'4').
RequestedCount == DigitVal(photoCount[1])

StrippedLog(F) == [k \in 1..Len(F.log) |-> Strip(F.log[k])]

----------------------------------------------------------------------------
(* Properties *)

\* C1: a run that reaches its end on a mounted page with a working grab
\* surface publishes exactly requestedCount images (the photo count selected),
\* and the k-th image of the batch is the one taken at photo index k.
C1_BatchIsComplete ==
    (Ended /\ mounted /\ contextOk) =>
        /\ capturedImages = lastRun.images
        /\ Len(capturedImages) = RequestedCount
        /\ \A k \in 1..Len(capturedImages) : capturedImages[k].shot = k

C1_Witness ==
    /\ Ended /\ mounted /\ contextOk
    /\ lastRun.timer = <<"5">>
    /\ Len(capturedImages) = 4

\* C2: with a timer, the history of every run is, photo after photo, the
\* countdown values timerSeconds, ..., 1, 0 (each once) and then the capture
\* of that photo; a run that ended has the whole of that history, a suspended
\* one a prefix of it that ends in the value the countdown state shows.
C2_CountdownBeforeEveryPhoto ==
    \A F \in Frames :
        F.timer # OFF =>
            LET s == Seconds(F.timer)
                exp == ExpectedRun(s, F.count)
            IN /\ IsPrefix(StrippedLog(F), exp)
               /\ (Ended /\ F = lastRun) => Len(F.log) = Len(exp)
               /\ (~Ended \/ F # lastRun) =>
                    /\ Len(F.log) = F.i * (s + 2) + (s - F.remaining) + 1
                    /\ F.remaining \in 1..s
                    /\ mounted => countdown = F.remaining

C2_Witness ==
    /\ Ended /\ mounted
    /\ lastRun.timer = <<"3">> /\ lastRun.count = 3
    /\ Len(capturedImages) = 3

\* C3: with the timer off there is no countdown in any state: the countdown
\* state stays null, no interval is scheduled and no run is left suspended,
\* and a run with the timer off consists of its captures alone.
C3_NoCountdownWhenOff ==
    /\ (mounted /\ timer = OFF) =>
            countdown = Null /\ runs = <<>> /\ ~isCapturing
    /\ \A F \in Frames :
            F.timer = OFF =>
                /\ Ended /\ F = lastRun
                /\ Len(F.log) = F.count
                /\ \A k \in 1..Len(F.log) : Strip(F.log[k]) = [ev |-> "shot", v |-> k]

C3_Witness ==
    /\ Ended /\ mounted /\ lastRun.timer = OFF
    /\ Len(capturedImages) = 4 /\ countdown = Null

\* C4: the review grid never shows a partial batch: whenever capturedImages is
\* non-empty it holds as many images as the photo count of the run that
\* produced it, and a run cut short by leaving the page publishes nothing.
C4_NoPartialBatch ==
    /\ capturedImages # <<>> => Len(capturedImages) = RequestedCount
    /\ (Ended /\ ~mounted) => capturedImages = <<>>

C4_Witness ==
    /\ Ended /\ ~mounted
    /\ Len(lastRun.images) \in 1..(lastRun.count - 1)
    /\ capturedImages = <<>>

\* C5 (as claimed): once the page is left, no interval of a run fires any
\* more: no step after the exit changes anything of a run (its remaining
\* count, its photo index, its images, its calls).
C5_NoTickAfterAbort == [][~mounted => runs' = runs]_vars

\* C6: while a run is active no step starts another one: at most one capture
\* loop (one interval) exists, and the capture button is disabled as long as
\* isCapturing holds.
C6_OneRunAtATime ==
    [][/\ Len(runs') <= 1
       /\ (mounted /\ isCapturing) => ~RunStarts
       /\ (mounted /\ runs # <<>>) => (isCapturing /\ ~CaptureButtonEnabled)]_vars

C6_Witness ==
    /\ mounted /\ isCapturing /\ Len(runs) = 1
    /\ runs[1].i = 1 /\ countdown = 2

\* C7 (as claimed): once the page is left, no track of an acquired stream is
\* live.
C7_StreamStoppedAfterExit == ~mounted => tracks # "live"

\* C8 (as claimed): a capture step that finds the grab surface not ready (no
\* element, no context, no stream attached) ends the run with nothing
\* published: no run goes on after such a step, no image of an empty canvas
\* is held or shown, and the page stays in Live mode.
C8_UnavailableAbortsRun ==
    mounted =>
        /\ \A F \in Frames : \A k \in 1..Len(F.log) :
                (F.log[k].ev = "shot" /\ F.log[k].res # "image") =>
                    /\ Ended /\ F = lastRun /\ k = Len(F.log)
                    /\ capturedImages = <<>> /\ ~isCapturing
        /\ \A k \in 1..Len(capturedImages) : ~capturedImages[k].blank

\* C9 (as claimed): after getUserMedia has rejected, no step starts a run and
\* no step produces a batch.
C9_NoCaptureAfterAcquisitionError ==
    [][acq = "rejected" =>
            /\ ~RunStarts
            /\ capturedImages = <<>> => capturedImages' = <<>>]_vars

\* C10: a run keeps the configuration of the moment it was triggered: the
\* photo count and the timer of a run on a mounted page are the ones the
\* selectors (still) show, and every image of a run carries the filter that
\* was selected when the run was triggered, whatever the filter selector
\* shows by the time of the capture.
C10_ConfigurationReadAtTrigger ==
    \A F \in Frames :
        /\ \A k \in 1..Len(F.images) : F.images[k].filter = F.filter
        /\ mounted => (F.count = RequestedCount /\ F.timer = timer)
        /\ (mounted /\ Ended) => capturedImages = F.images

C10_Witness ==
    /\ Ended /\ mounted
    /\ Len(capturedImages) = 2
    /\ lastRun.filter = "sepia(100%)" /\ filter = "blur(3px)"
    /\ capturedImages[2].filter = "sepia(100%)"

\* C11: retake is offered only while a batch is shown (no run active); for any
\* batch size it leaves the mounted page with an empty batch, photo index 0,
\* no countdown and no run, and with the capture button enabled.
C11_RetakeReturnsToLive ==
    [][RetakePhoto =>
            /\ capturedImages # <<>> /\ ~isCapturing /\ runs = <<>>
            /\ Len(capturedImages) \in 1..4
            /\ mounted' /\ capturedImages' = <<>> /\ currentPhotoIndex' = 0
            /\ countdown' = Null /\ ~isCapturing' /\ runs' = <<>>
            /\ CaptureButtonEnabled']_vars

\* A live page with an acquired stream but a <video> without it: only a
\* retake leads there.
C11_Witness ==
    /\ mounted /\ capturedImages = <<>> /\ CaptureButtonEnabled
    /\ acq = "resolved" /\ ~srcObject
    /\ photoCount = <<"4">> /\ currentPhotoIndex = 0

\* C12: a download exists only for a shown batch, and it is one click per
\* image, in batch order, image k under file index k (1-based); with no batch
\* shown there is none; and the step that issues a download leaves the mode,
\* the batch and the sequencing state as they were.
C12_DownloadOnePerImage ==
    /\ [](/\ downloads # <<>> =>
                /\ mounted /\ capturedImages # <<>> /\ ~isCapturing
                /\ Len(downloads) = Len(capturedImages)
                /\ \A k \in 1..Len(downloads) :
                        /\ downloads[k].index = k
                        /\ downloads[k].href = capturedImages[k]
                        /\ downloads[k].href.shot = k
          /\ capturedImages = <<>> => downloads = <<>>)
    /\ [][(downloads' # downloads /\ downloads' # <<>>) =>
                UNCHANGED <<mounted, seqVars, selVars, runs, srcObject>>]_vars

C12_Witness ==
    /\ Len(downloads) = 4 /\ downloads[4].index = 4
    /\ mounted /\ Len(capturedImages) = 4

\* C13: stopping is idempotent.  In every state, stopping as goBack does
\* raises no error; stopping once more (goBack again, or the effect cleanup
\* that follows it) leaves the tracks as the first stop left them; on a
\* stream that never started it does nothing; and tracks once stopped are
\* never live again.
C13_StopIsIdempotent ==
    /\ [](LET once == StopStream(stream, tracks)
          IN /\ tracks \in {"none", "live", "stopped"}
             /\ once \in {"none", "stopped"} \/ (stream = NullStream /\ once = tracks)
             /\ StopStream(stream, once) = once
             /\ Cleanup(once) = once
             /\ StopTracks(StopTracks(tracks)) = StopTracks(tracks)
             /\ tracks = "none" => once = "none")
    /\ [][tracks = "stopped" => tracks' = "stopped"]_vars

C13_Witness == ~mounted /\ tracks = "stopped" /\ acq = "resolved"

\* C14: with the ticks delivered, a run that is active on the page ends: it
\* reaches the end of its loop, leaving isCapturing false, photo index 0 and
\* no countdown, unless the page is left first.  An active run ends in no
\* other way: isCapturing falls only in the step in which a run reaches its
\* end, or when the page is left.
C14_RunTerminates ==
    /\ (mounted /\ isCapturing) ~>
            \/ ~mounted
            \/ /\ Ended /\ ~isCapturing /\ runs = <<>>
               /\ currentPhotoIndex = 0 /\ countdown = Null
    /\ [][(isCapturing /\ ~isCapturing') =>
            \/ ~mounted'
            \/ /\ lastRun' # NoRun /\ lastRun'.i = lastRun'.count
               /\ currentPhotoIndex' = 0 /\ countdown' = Null]_vars

C14_Witness ==
    /\ Ended /\ mounted /\ ~isCapturing /\ runs = <<>>
    /\ currentPhotoIndex = 0 /\ countdown = Null
    /\ lastRun.timer = <<"1", "0">> /\ lastRun.count = 4 /\ lastRun.i = 4

\* C15 (as claimed): from a successful acquisition until the stream is
\* stopped, the <video> element shown in Live mode has the stream attached,
\* also after a run and a retake.
C15_StreamStaysAttached ==
    (mounted /\ capturedImages = <<>> /\ stream = MediaStream /\ tracks = "live")
        => srcObject

\* C16: the tick that takes the count to 0 takes the photo as well: no state
\* shows a countdown of 0, no suspended run has less than one second left,
\* and while a run with a countdown is active on the page no state shows the
\* countdown cleared with the photo still to be taken; a step that
\* ends a countdown (the last second gone) has taken that photo.
C16_ZeroTickCaptures ==
    /\ [](/\ countdown # 0
          /\ \A r \in 1..Len(runs) : runs[r].remaining >= 1
          /\ (mounted /\ isCapturing) =>
                /\ countdown # Null
                /\ Len(runs) = 1 /\ countdown = runs[1].remaining)
    /\ [][\A r \in 1..Len(runs) :
            (runs[r].remaining = 1 /\ Tick(r)) =>
                LET F == IF Len(runs') = Len(runs) THEN runs'[r] ELSE lastRun'
                IN /\ F.i = runs[r].i + 1
                   /\ F.log[Len(runs[r].log) + 1] = CdEvent(0)
                   /\ F.log[Len(runs[r].log) + 2].ev = "shot"
                   /\ F.log[Len(runs[r].log) + 2].v = runs[r].i + 1]_vars

C16_Witness ==
    /\ mounted /\ isCapturing /\ Len(runs) = 1
    /\ runs[1].i = 1 /\ runs[1].count = 2 /\ runs[1].timer = <<"5">>
    /\ runs[1].remaining = 5 /\ countdown = 5
    /\ Len(runs[1].images) = 1

\* C17: while a run is active on the page the photo index is the number of
\* the photo being taken, between 1 and the photo count selected; it is 1
\* when the run starts and goes up by exactly 1 from one photo to the next;
\* it is 0 exactly when no run is active.
C17_PhotoIndexInRange ==
    /\ [](mounted =>
            /\ isCapturing =>
                /\ currentPhotoIndex \in 1..RequestedCount
                /\ Len(runs) = 1
                /\ currentPhotoIndex = runs[1].i + 1
                /\ currentPhotoIndex = Len(runs[1].images) + 1 \/ ~contextOk
            /\ ~isCapturing <=> currentPhotoIndex = 0)
    /\ [][mounted' =>
            /\ (~isCapturing /\ isCapturing') => currentPhotoIndex' = 1
            /\ (isCapturing /\ isCapturing') =>
                    \/ currentPhotoIndex' = currentPhotoIndex
                    \/ currentPhotoIndex' = currentPhotoIndex + 1]_vars

C17_Witness ==
    /\ mounted /\ isCapturing /\ currentPhotoIndex = 4
    /\ photoCount = <<"4">> /\ countdown = 1

\* C18: no run ever holds more images than its photo count, no batch shown
\* is larger than the photo count selected, and neither exceeds 4.
C18_NeverMoreThanRequested ==
    /\ \A F \in Frames :
            /\ F.count \in 1..4
            /\ Len(F.images) <= F.i /\ F.i <= F.count
            /\ \A k \in 1..Len(F.images) : F.images[k].shot \in 1..F.count
    /\ Len(capturedImages) <= RequestedCount
    /\ RequestedCount <= 4

C18_Witness ==
    /\ mounted /\ Len(runs) = 1
    /\ runs[1].count = 4 /\ Len(runs[1].images) = 3 /\ runs[1].remaining = 1

\* C19: the page never shows a batch while a run is active: isCapturing
\* implies an empty capturedImages, a batch is shown only with no run
\* suspended, the batch appears only in the step that ends a run and leaves
\* isCapturing false (a run without timer begins and ends in that one
\* step), and the Retake/Download buttons are never enabled together with
\* the capture button or the timer and count selectors.
C19_NoReviewWhileCapturing ==
    /\ [](/\ isCapturing => capturedImages = <<>>
          /\ (mounted /\ capturedImages # <<>>) => (runs = <<>> /\ ~isCapturing)
          /\ ~(ENABLED RetakePhoto /\ ENABLED CapturePhoto)
          /\ ~(ENABLED DownloadPhoto /\ ENABLED SetTimer(<<"3">>))
          /\ ~(ENABLED RetakePhoto /\ ENABLED SetPhotoCount(<<"2">>)))
    /\ [][(capturedImages = <<>> /\ capturedImages' # <<>>) =>
            /\ ~isCapturing' /\ lastRun' # NoRun
            /\ isCapturing \/ ~UsesTimer(lastRun'.timer)]_vars

C19_Witness ==
    /\ mounted /\ isCapturing /\ capturedImages = <<>>
    /\ Len(runs) = 1 /\ Len(runs[1].images) = 2 /\ runs[1].count = 3

====
